---- MODULE Spec2Model ----
(***************************************************************************)
(* Account lifecycle and session model of FlowDash: the mock backend       *)
(* controller (backend/src/controllers/auth.controller.js) and the client  *)
(* AuthContext (AuthContext.tsx), which re-implements the same lifecycle   *)
(* against localStorage.  The two implementations never talk to each       *)
(* other; impl says which of them a behaviour runs.                        *)
(*                                                                         *)
(* Strings the code inspects (emails, passwords, names, map keys) are      *)
(* sequences of one-character strings, so that toLowerCase, trim, the      *)
(* e-mail regex, length checks and the "reset_" key prefix are computed.   *)
(***************************************************************************)
EXTENDS Integers, Sequences, FiniteSets, Bags, TLC

VARIABLES
    impl,                  \* "backend" | "client": the implementation running
    now,                   \* Date.now(), in milliseconds
    ticks,                 \* number of clock advances so far (bounded)
    tokCtr,                \* random tokens drawn so far (each draw is fresh)
    idCtr,                 \* random id suffixes drawn so far
    users,                 \* backend: const users = [...]
    pendingVerifications,  \* backend: const pendingVerifications = new Map()
    req,                   \* backend: requests suspended at an await
    resetsDone,            \* backend: <<email, token>> of every resetPassword
                           \* answered 200 so far (what its callers have seen)
    resp,                  \* the most recent response / returned result
    lsRegisteredUsers,     \* client: localStorage flowdash_registered_users
    lsPendingVerifications,\* client: localStorage flowdash_pending_verifications
    lsPasswordResetTokens, \* client: localStorage flowdash_password_reset_tokens
    lsSession,             \* client: localStorage flowdash_user/_token/_role
    user,                  \* client: useState user
    token,                 \* client: useState token
    loading,               \* client: useState loading
    calls                  \* client: calls suspended at an await

vars == << impl, now, ticks, tokCtr, idCtr, users, pendingVerifications, req,
           resetsDone, resp, lsRegisteredUsers, lsPendingVerifications,
           lsPasswordResetTokens, lsSession, user, token, loading, calls >>

backendVars == << users, pendingVerifications, req, resetsDone >>
clientVars == << lsRegisteredUsers, lsPendingVerifications,
                 lsPasswordResetTokens, lsSession, user, token, loading, calls >>

----------------------------------------------------------------------------
(* Bounds of the model *)

MaxTicks == 1        \* clock advances per behaviour
MaxTokens == 2       \* random tokens minted per behaviour
MaxSignups == 2      \* accounts created per behaviour
MaxHops == 3          \* redirects followed from one path
MaxInflight == 2     \* requests / calls suspended at an await at one time

----------------------------------------------------------------------------
(* Strings *)

UpperCase == << "A","B","C","D","E","F","G","H","I","J","K","L","M",
                "N","O","P","Q","R","S","T","U","V","W","X","Y","Z" >>
LowerCase == << "a","b","c","d","e","f","g","h","i","j","k","l","m",
                "n","o","p","q","r","s","t","u","v","w","x","y","z" >>

IsSpace(c) == c \in {" ", "\t", "\n", "\r"}

ToLowerChar(c) ==
    IF \E i \in 1..26 : UpperCase[i] = c
    THEN LowerCase[CHOOSE i \in 1..26 : UpperCase[i] = c]
    ELSE c

\* String.prototype.toLowerCase
ToLowerCase(s) == [i \in 1..Len(s) |-> ToLowerChar(s[i])]

\* String.prototype.trim
RECURSIVE TrimStart(_)
TrimStart(s) == IF s # << >> /\ IsSpace(Head(s)) THEN TrimStart(Tail(s)) ELSE s

RECURSIVE TrimEnd(_)
TrimEnd(s) ==
    IF s # << >> /\ IsSpace(s[Len(s)])
    THEN TrimEnd(SubSeq(s, 1, Len(s) - 1))
    ELSE s

Trim(s) == TrimEnd(TrimStart(s))

\* /^[^\s@]+@[^\s@]+\.[^\s@]+$/.test(email)
EmailRegexTest(email) ==
    \E at \in 1..Len(email), dot \in 1..Len(email) :
        /\ email[at] = "@"
        /\ email[dot] = "."
        /\ 1 < at
        /\ at + 1 < dot
        /\ dot < Len(email)
        /\ \A m \in 1..Len(email) :
               /\ ~IsSpace(email[m])
               /\ (email[m] = "@" => m = at)

\* `reset_${normalizedEmail}`
ResetPrefix == << "r","e","s","e","t","_" >>
ResetKey(normalizedEmail) == ResetPrefix \o normalizedEmail

\* the empty string, also standing for an absent field
NoString == << >>

\* !s
Missing(s) == s = NoString

----------------------------------------------------------------------------
(* Program constants *)

\* a verification token that lives one hour, as a reset token does
VERIFY_TTL_OfReset == 60 * 60 * 1000

VERIFY_TTL == 24 * 60 * 60 * 1000
RESET_TTL == 60 * 60 * 1000
SESSION_TTL == 24 * 60 * 60 * 1000
JWT_EXPIRES_IN_S == 24 * 60 * 60
MIN_PASSWORD_LENGTH == 6

DemoDomain == << "@","d","e","m","o",".","c","o","m" >>
OperatorEmail == << "o","p","e","r","a","t","o","r" >> \o DemoDomain
ManagerEmail == << "m","a","n","a","g","e","r" >> \o DemoDomain
DirectorEmail == << "d","i","r","e","c","t","o","r" >> \o DemoDomain
DemoPassword == << "d","e","m","o","1","2","3" >>

----------------------------------------------------------------------------
(* Email strings *)

\* the email strings requests carry: a new address in several spellings, the
\* address that reads as its reset key, the demo addresses, the empty string
Jane == << "j","@","x",".","c" >>
JaneUpper == << "J","@","X",".","c" >>
JanePadded == << " ","j","@","x",".","c"," " >>
JaneVariant == << " ","J","@","x",".","C" >>
ResetJane == ResetPrefix \o Jane

\* a UTF-16 code unit of a surrogate pair standing alone ("\uD800"), and an
\* address that starts with it; the code unit is no white space, no "@" and
\* has no lower case
LoneSurrogate == "U+D800"
SurrogateEmail == << LoneSurrogate, "@","x",".","c" >>

\* encodeURIComponent(s) throws URIError when s holds a lone surrogate
EncodeURIComponentThrows(s) == \E i \in 1..Len(s) : s[i] = LoneSurrogate

EmailStrings == { NoString, Jane, JaneUpper, JanePadded, JaneVariant, ResetJane,
                  SurrogateEmail, OperatorEmail, ManagerEmail, DirectorEmail }

\* email.toLowerCase().trim(), computed once for every email string
NormalizedEmail == [ email \in EmailStrings |-> Trim(ToLowerCase(email)) ]
NormalizeEmail(email) == NormalizedEmail[email]

----------------------------------------------------------------------------
(* Values shared by both implementations *)

\* A JS Map / a JSON object used as a map: a function on the keys present.
EmptyMap == << >>
MapHas(m, k) == k \in DOMAIN m
MapSetIfAbsent(m, k, v) == [x \in (DOMAIN m) \cup {k} |-> IF x \in DOMAIN m THEN m[x] ELSE v]
MapSet(m, k, v) == [x \in (DOMAIN m) \cup {k} |-> IF x = k THEN v ELSE m[x]]
MapDelete(m, k) == [x \in (DOMAIN m) \ {k} |-> m[x]]

\* Date.now() > pending.expiry (backend), Date.now() > pending.expiresAt (client)
NeverExpired(t, expiry) == FALSE
Expired(t, expiry) == t > expiry

\* A random token string (crypto.randomBytes(32).toString('hex') in the
\* backend, btoa(Math.random()... + Date.now()...) in the client): the n-th
\* draw, distinct from every earlier draw.  << >> is the empty string.
RandomToken(n) == << "tok", n >>

\* `usr_${Date.now()}_${Math.random().toString(36).substr(2, 9)}`
NewUserId(t, n) == << "usr", t, n >>

\* An HTTP response of the backend (status, JSON body) or the object a client
\* call resolves to (status 0: the client has no status code; message is the
\* body's message, respectively the result's error).
Res(op, status, success, message) ==
    [ op |-> op, status |-> status, success |-> success, message |-> message,
      requiresVerification |-> FALSE, token |-> << >>, user |-> << >> ]

NoResponse == Res("none", 0, FALSE, "")

\* A request or call suspended at an await, with what its continuation reads.
\* The suspended requests form a bag: two identical requests may be in flight.
Suspended(op, email, tok, password, idx) ==
    [ op |-> op, email |-> email, password |-> password, tok |-> tok, idx |-> idx ]

NoneInFlight == EmptyBag
Suspend(q, r) == q (+) SetToBag({r})
Resume(q, r) == q (-) SetToBag({r})
HasFreeSlot(q) == BagCardinality(q) < MaxInflight
InFlight(q, op) == BagCardinality([r \in {x \in BagToSet(q) : x.op = op} |-> q[r]])

----------------------------------------------------------------------------
(* Backend: auth.controller.js *)

\* bcrypt.hash(password, cost) / bcrypt.hashSync: opaque, and only
\* bcrypt.compare relates a hash to the password it was made from.
bcryptHash(password, cost) == [ alg |-> "bcrypt", cost |-> cost, plain |-> password ]
bcryptCompare(password, hash) == hash.alg = "bcrypt" /\ hash.plain = password

BackendDemoUsers ==
    << [ id |-> << "1" >>, email |-> OperatorEmail,
         password |-> bcryptHash(DemoPassword, 10), role |-> "operator",
         isVerified |-> TRUE ],
       [ id |-> << "2" >>, email |-> ManagerEmail,
         password |-> bcryptHash(DemoPassword, 10), role |-> "manager",
         isVerified |-> TRUE ],
       [ id |-> << "3" >>, email |-> DirectorEmail,
         password |-> bcryptHash(DemoPassword, 10), role |-> "director",
         isVerified |-> TRUE ] >>

\* users.find(u => u.email === normalizedEmail): index of the first match, 0 if none
FindUser(us, normalizedEmail) ==
    IF \E i \in DOMAIN us : us[i].email = normalizedEmail
    THEN CHOOSE i \in DOMAIN us :
             /\ us[i].email = normalizedEmail
             /\ \A j \in DOMAIN us : j < i => us[j].email # normalizedEmail
    ELSE 0

\* const { password: _, ...userData } = user
UserData(u) == [ id |-> u.id, email |-> u.email, role |-> u.role,
                 isVerified |-> u.isVerified ]

\* jwt.sign({userId, email, role}, JWT_SECRET, {expiresIn: '24h'}): iat and exp
\* are in seconds.
JwtSign(u, t) ==
    [ userId |-> u.id, email |-> u.email, role |-> u.role,
      iat |-> t \div 1000, exp |-> (t \div 1000) + JWT_EXPIRES_IN_S ]

\* exports.signup, up to `await bcrypt.hash`: << >> when the request is
\* accepted, otherwise the response it is rejected with.
SignupRejection(us, name, email, password) ==
    IF Missing(name) \/ Missing(email) \/ Missing(password)
    THEN << Res("signup", 400, FALSE, "Name, email and password are required") >>
    ELSE IF ~EmailRegexTest(email)
    THEN << Res("signup", 400, FALSE, "Please enter a valid email address") >>
    ELSE IF Len(password) < MIN_PASSWORD_LENGTH
    THEN << Res("signup", 400, FALSE, "Password must be at least 6 characters") >>
    ELSE IF FindUser(us, NormalizeEmail(email)) # 0
    THEN << Res("signup", 409, FALSE, "An account with this email already exists") >>
    ELSE << >>

BSignup(name, email, password) ==
    /\ impl = "backend"
    /\ resp = NoResponse
    /\ LET rejection == SignupRejection(users, name, email, password) IN
       IF rejection # << >>
       THEN /\ resp' = rejection[1]
            /\ UNCHANGED req
       ELSE /\ HasFreeSlot(req)
            /\ Len(users) + InFlight(req, "signup") < Len(BackendDemoUsers) + MaxSignups
            /\ tokCtr + InFlight(req, "signup") < MaxTokens
            /\ req' = Suspend(req, Suspended("signup", NormalizeEmail(email),
                                              NoString, password, 0))
            /\ UNCHANGED resp
    /\ UNCHANGED << impl, now, ticks, tokCtr, idCtr, users, pendingVerifications >>
    /\ UNCHANGED clientVars
    /\ UNCHANGED resetsDone

\* exports.signup after `await bcrypt.hash`: mint the token, store the pending
\* verification, push the user, hand the mail off, answer 201; when
\* sendVerificationEmail throws (its encodeURIComponent(email)) the catch
\* block answers 500 after the token and the user were stored.
BSignupResume(r) ==
    /\ impl = "backend"
    /\ resp = NoResponse
    /\ BagIn(r, req)
    /\ r.op = "signup"
    /\ LET normalizedEmail == r.email
           verificationToken == RandomToken(tokCtr + 1)
           newUser == [ id |-> NewUserId(now, idCtr + 1),
                        email |-> normalizedEmail,
                        password |-> bcryptHash(r.password, 12),
                        role |-> "operator",
                        isVerified |-> FALSE ]
       IN /\ pendingVerifications' =
                 MapSet(pendingVerifications, normalizedEmail,
                        [ token |-> verificationToken,
                          expiry |-> now + VERIFY_TTL,
                          userId |-> newUser.id ])
          /\ users' = Append(users, newUser)
          /\ resp' = IF EncodeURIComponentThrows(normalizedEmail)
                     THEN Res("signup", 500, FALSE, "Internal server error")
                     ELSE [Res("signup", 201, TRUE,
                               "Account created! Please check your email to verify your account.")
                             EXCEPT !.requiresVerification = TRUE]
    /\ tokCtr' = tokCtr + 1
    /\ idCtr' = idCtr + 1
    /\ req' = Resume(req, r)
    /\ UNCHANGED << impl, now, ticks >>
    /\ UNCHANGED clientVars
    /\ UNCHANGED resetsDone

\* exports.verifyEmail: the response for (email, token) in a given state
VerifyEmailResponse(pv, t, email, tok) ==
    LET normalizedEmail == NormalizeEmail(email) IN
    IF Missing(email) \/ Missing(tok)
    THEN Res("verifyEmail", 400, FALSE, "Email and token are required")
    ELSE IF ~MapHas(pv, normalizedEmail)
    THEN Res("verifyEmail", 400, FALSE, "Verification link is invalid or has expired")
    ELSE IF pv[normalizedEmail].token # tok
    THEN Res("verifyEmail", 400, FALSE, "Invalid verification token")
    ELSE IF Expired(t, pv[normalizedEmail].expiry)
    THEN Res("verifyEmail", 400, FALSE,
             "Verification link has expired. Please sign up again.")
    ELSE Res("verifyEmail", 200, TRUE, "Email verified successfully! You can now log in.")

BVerifyEmail(email, tok) ==
    /\ impl = "backend"
    /\ resp = NoResponse
    /\ LET normalizedEmail == NormalizeEmail(email)
           r == VerifyEmailResponse(pendingVerifications, now, email, tok)
           i == FindUser(users, normalizedEmail)
       IN /\ resp' = r
          /\ users' = IF r.success /\ i # 0
                      THEN [users EXCEPT ![i].isVerified = TRUE]
                      ELSE users
          /\ pendingVerifications' =
                 IF r.success
                    \/ r.message = "Verification link has expired. Please sign up again."
                 THEN MapDelete(pendingVerifications, normalizedEmail)
                 ELSE pendingVerifications
    /\ UNCHANGED << impl, now, ticks, tokCtr, idCtr, req >>
    /\ UNCHANGED clientVars
    /\ UNCHANGED resetsDone

\* exports.resendVerification (its only await, the mail hand-off, is the last
\* statement before the response)
BResendVerification(email) ==
    /\ impl = "backend"
    /\ resp = NoResponse
    /\ LET normalizedEmail == NormalizeEmail(email)
           i == FindUser(users, normalizedEmail)
       IN IF Missing(email)
          THEN /\ resp' = Res("resendVerification", 400, FALSE, "Email is required")
               /\ UNCHANGED << pendingVerifications, tokCtr >>
          ELSE IF i = 0
          THEN /\ resp' = Res("resendVerification", 404, FALSE,
                              "No account found with this email")
               /\ UNCHANGED << pendingVerifications, tokCtr >>
          ELSE IF users[i].isVerified
          THEN /\ resp' = Res("resendVerification", 400, FALSE,
                              "This email is already verified")
               /\ UNCHANGED << pendingVerifications, tokCtr >>
          ELSE /\ tokCtr + InFlight(req, "signup") < MaxTokens
               /\ pendingVerifications' =
                      MapSet(pendingVerifications, normalizedEmail,
                             [ token |-> RandomToken(tokCtr + 1),
                               expiry |-> now + VERIFY_TTL,
                               userId |-> users[i].id ])
               /\ tokCtr' = tokCtr + 1
               /\ resp' = Res("resendVerification", 200, TRUE,
                              "Verification email sent! Please check your inbox.")
    /\ UNCHANGED << impl, now, ticks, idCtr, users, req >>
    /\ UNCHANGED clientVars
    /\ UNCHANGED resetsDone

\* a login that compares the password before it looks at the verification
LoginResponsePasswordFirst(us, t, email, password) ==
    LET i == FindUser(us, NormalizeEmail(email)) IN
    IF Missing(email) \/ Missing(password)
    THEN Res("login", 400, FALSE, "Email and password are required")
    ELSE IF i = 0
    THEN Res("login", 401, FALSE, "No account found with this email")
    ELSE IF ~bcryptCompare(password, us[i].password)
    THEN Res("login", 401, FALSE, "Incorrect password")
    ELSE IF ~us[i].isVerified
    THEN [Res("login", 403, FALSE, "Please verify your email before logging in")
            EXCEPT !.requiresVerification = TRUE]
    ELSE [Res("login", 200, TRUE, "Login successful")
            EXCEPT !.token = << JwtSign(us[i], t) >>, !.user = << UserData(us[i]) >>]

\* exports.login: the response for (email, password) in a given state.  The
\* handler's one await, bcrypt.compare, gets both its arguments before it
\* suspends, and the continuation reads only the id, email and role of the
\* user found, which no handler assigns: the handler is one step.
LoginResponse(us, t, email, password) ==
    LET i == FindUser(us, NormalizeEmail(email)) IN
    IF Missing(email) \/ Missing(password)
    THEN Res("login", 400, FALSE, "Email and password are required")
    ELSE IF i = 0
    THEN Res("login", 401, FALSE, "No account found with this email")
    ELSE IF ~us[i].isVerified
    THEN [Res("login", 403, FALSE, "Please verify your email before logging in")
            EXCEPT !.requiresVerification = TRUE]
    ELSE IF ~bcryptCompare(password, us[i].password)
    THEN Res("login", 401, FALSE, "Incorrect password")
    ELSE [Res("login", 200, TRUE, "Login successful")
            EXCEPT !.token = << JwtSign(us[i], t) >>, !.user = << UserData(us[i]) >>]

BLogin(email, password) ==
    /\ impl = "backend"
    /\ resp = NoResponse
    /\ resp' = LoginResponse(users, now, email, password)
    /\ UNCHANGED << impl, now, ticks, tokCtr, idCtr, users, pendingVerifications, req >>
    /\ UNCHANGED clientVars
    /\ UNCHANGED resetsDone

\* exports.requestPasswordReset: the response for an email in a given state
RequestPasswordResetResponse(us, email) ==
    IF Missing(email)
    THEN Res("requestPasswordReset", 400, FALSE, "Email is required")
    ELSE IF FindUser(us, NormalizeEmail(email)) = 0
    THEN Res("requestPasswordReset", 200, TRUE,
             "If an account exists with this email, you will receive a reset link.")
    ELSE Res("requestPasswordReset", 200, TRUE,
             "If an account exists with this email, you will receive a reset link.")

BRequestPasswordReset(email) ==
    /\ impl = "backend"
    /\ resp = NoResponse
    /\ LET normalizedEmail == NormalizeEmail(email)
           i == FindUser(users, normalizedEmail)
       IN /\ resp' = RequestPasswordResetResponse(users, email)
          /\ IF Missing(email) \/ i = 0
             THEN UNCHANGED << pendingVerifications, tokCtr >>
             ELSE /\ tokCtr + InFlight(req, "signup") < MaxTokens
                  /\ pendingVerifications' =
                         MapSet(pendingVerifications, ResetKey(normalizedEmail),
                                [ token |-> RandomToken(tokCtr + 1),
                                  expiry |-> now + RESET_TTL,
                                  userId |-> users[i].id ])
                  /\ tokCtr' = tokCtr + 1
    /\ UNCHANGED << impl, now, ticks, idCtr, users, req >>
    /\ UNCHANGED clientVars
    /\ UNCHANGED resetsDone

\* exports.validateResetToken: the response for (email, token) in a given state
ValidateResetTokenResponse(pv, t, email, tok) ==
    LET key == ResetKey(NormalizeEmail(email)) IN
    IF Missing(email) \/ Missing(tok)
    THEN Res("validateResetToken", 400, FALSE, "Email and token are required")
    ELSE IF ~MapHas(pv, key)
    THEN Res("validateResetToken", 400, FALSE, "Invalid or expired reset link")
    ELSE IF pv[key].token # tok
    THEN Res("validateResetToken", 400, FALSE, "Invalid reset token")
    ELSE IF Expired(t, pv[key].expiry)
    THEN Res("validateResetToken", 400, FALSE, "Reset link has expired")
    ELSE Res("validateResetToken", 200, TRUE, "Token is valid")

BValidateResetToken(email, tok) ==
    /\ impl = "backend"
    /\ resp = NoResponse
    /\ LET r == ValidateResetTokenResponse(pendingVerifications, now, email, tok) IN
       /\ resp' = r
       /\ pendingVerifications' =
              IF r.message = "Reset link has expired"
              THEN MapDelete(pendingVerifications, ResetKey(NormalizeEmail(email)))
              ELSE pendingVerifications
    /\ UNCHANGED << impl, now, ticks, tokCtr, idCtr, users, req >>
    /\ UNCHANGED clientVars
    /\ UNCHANGED resetsDone

\* exports.resetPassword, its checks: << >> when they all pass, otherwise the
\* response the request is rejected with.
ResetPasswordRejectionAnyToken(pv, t, email, tok, newPassword) ==
    LET key == ResetKey(NormalizeEmail(email)) IN
    IF Missing(email) \/ Missing(tok) \/ Missing(newPassword)
    THEN << Res("resetPassword", 400, FALSE, "Email, token and new password are required") >>
    ELSE IF Len(newPassword) < MIN_PASSWORD_LENGTH
    THEN << Res("resetPassword", 400, FALSE, "Password must be at least 6 characters") >>
    ELSE IF ~MapHas(pv, key)
    THEN << Res("resetPassword", 400, FALSE, "Invalid or expired reset link") >>
    ELSE IF Expired(t, pv[key].expiry)
    THEN << Res("resetPassword", 400, FALSE, "Reset link has expired") >>
    ELSE << >>
ResetPasswordRejection(pv, t, email, tok, newPassword) ==
    LET key == ResetKey(NormalizeEmail(email)) IN
    IF Missing(email) \/ Missing(tok) \/ Missing(newPassword)
    THEN << Res("resetPassword", 400, FALSE, "Email, token and new password are required") >>
    ELSE IF Len(newPassword) < MIN_PASSWORD_LENGTH
    THEN << Res("resetPassword", 400, FALSE, "Password must be at least 6 characters") >>
    ELSE IF ~MapHas(pv, key)
    THEN << Res("resetPassword", 400, FALSE, "Invalid or expired reset link") >>
    ELSE IF pv[key].token # tok
    THEN << Res("resetPassword", 400, FALSE, "Invalid reset token") >>
    ELSE IF Expired(t, pv[key].expiry)
    THEN << Res("resetPassword", 400, FALSE, "Reset link has expired") >>
    ELSE << >>

\* a password update that also takes the verification back
SetPasswordAndUnverify(us, i, hashed) ==
    [us EXCEPT ![i].password = hashed, ![i].isVerified = FALSE]

\* user.password = <the awaited hash>, for the user found before the await
SetPassword(us, i, hashed) ==
    [us EXCEPT ![i].password = hashed]

ResetPasswordDone == Res("resetPassword", 200, TRUE, "Password has been reset successfully")

\* exports.resetPassword up to `await bcrypt.hash`; with no user for the email
\* nothing is awaited and the handler runs to its response.
BResetPassword(email, tok, newPassword) ==
    /\ impl = "backend"
    /\ resp = NoResponse
    /\ LET normalizedEmail == NormalizeEmail(email)
           rejection == ResetPasswordRejection(pendingVerifications, now,
                                               email, tok, newPassword)
           i == FindUser(users, normalizedEmail)
       IN IF rejection # << >>
          THEN /\ resp' = rejection[1]
               /\ pendingVerifications' =
                      IF rejection[1].message = "Reset link has expired"
                      THEN MapDelete(pendingVerifications, ResetKey(normalizedEmail))
                      ELSE pendingVerifications
               /\ UNCHANGED << req, resetsDone >>
          ELSE IF i = 0
          THEN /\ pendingVerifications' =
                      MapDelete(pendingVerifications, ResetKey(normalizedEmail))
               /\ resp' = ResetPasswordDone
               /\ resetsDone' = resetsDone \cup { << normalizedEmail, tok >> }
               /\ UNCHANGED req
          ELSE /\ HasFreeSlot(req)
               /\ req' = Suspend(req, Suspended("resetPassword", normalizedEmail,
                                                 tok, newPassword, i))
               /\ UNCHANGED << resp, pendingVerifications, resetsDone >>
    /\ UNCHANGED << impl, now, ticks, tokCtr, idCtr, users >>
    /\ UNCHANGED clientVars

\* exports.resetPassword after `await bcrypt.hash`: assign the hash, delete the
\* reset entry, answer 200.
BResetPasswordResume(r) ==
    /\ impl = "backend"
    /\ resp = NoResponse
    /\ BagIn(r, req)
    /\ r.op = "resetPassword"
    /\ users' = SetPassword(users, r.idx, bcryptHash(r.password, 12))
    /\ pendingVerifications' = MapDelete(pendingVerifications, ResetKey(r.email))
    /\ resp' = ResetPasswordDone
    /\ resetsDone' = resetsDone \cup { << r.email, r.tok >> }
    /\ req' = Resume(req, r)
    /\ UNCHANGED << impl, now, ticks, tokCtr, idCtr >>
    /\ UNCHANGED clientVars

\* The Authorization header of a request: `Bearer <token>` carrying a token
\* that jwt.sign produced, or a string it did not produce, or no header.
SignedToken(payload) == << "Bearer", payload, "HS256" >>

\* jwt.verify(token, JWT_SECRET): the payload of a token signed with the secret
\* and not yet expired (the clock, in seconds, is before exp); << >> if it throws
JwtVerify(authorization, t) ==
    IF Len(authorization) = 3 /\ authorization[1] = "Bearer"
          /\ (t \div 1000) < authorization[2].exp
    THEN << authorization[2] >>
    ELSE << >>

\* verifyToken (auth.middleware) followed by exports.verifySession
VerifySessionResponse(authorization, t) ==
    IF Missing(authorization)
    THEN Res("verifySession", 401, FALSE, "No token provided")
    ELSE IF JwtVerify(authorization, t) = << >>
    THEN Res("verifySession", 401, FALSE, "Invalid token")
    ELSE [Res("verifySession", 200, TRUE, "Session is valid")
            EXCEPT !.user = JwtVerify(authorization, t)]

\* exports.logout
BLogout ==
    /\ impl = "backend"
    /\ resp = NoResponse
    /\ resp' = Res("logout", 200, TRUE, "Logged out successfully")
    /\ UNCHANGED << impl, now, ticks, tokCtr, idCtr >>
    /\ UNCHANGED backendVars
    /\ UNCHANGED clientVars

BVerifySession(authorization) ==
    /\ impl = "backend"
    /\ resp = NoResponse
    /\ resp' = VerifySessionResponse(authorization, now)
    /\ UNCHANGED << impl, now, ticks, tokCtr, idCtr >>
    /\ UNCHANGED backendVars
    /\ UNCHANGED clientVars

----------------------------------------------------------------------------
(* Client: AuthContext.tsx *)

FlowdashSalt == << "_","f","l","o","w","d","a","s","h","_","s","a","l","t",
                   "_","2","0","2","4" >>

\* btoa(password + "_flowdash_salt_2024")
hashPassword(password) == << "btoa", password \o FlowdashSalt >>

DEMO_USERS ==
    [ e \in {OperatorEmail, ManagerEmail, DirectorEmail} |->
        [ hashedPassword |-> hashPassword(DemoPassword),
          user |-> [ id |-> IF e = OperatorEmail THEN << "usr_op_001" >>
                            ELSE IF e = ManagerEmail THEN << "usr_mgr_001" >>
                            ELSE << "usr_dir_001" >>,
                     email |-> e,
                     role |-> IF e = OperatorEmail THEN "operator"
                              ELSE IF e = ManagerEmail THEN "manager"
                              ELSE "director",
                     isVerified |-> TRUE ],
          verificationToken |-> << >> ] ]

\* btoa(JSON.stringify({userId, role, iat, exp}))
generateToken(userId, role, t) ==
    << "btoa", [ userId |-> userId, role |-> role, iat |-> t, exp |-> t + SESSION_TTL ] >>

\* localStorage without the three session keys
NoSession == [ user |-> << >>, token |-> << >>, role |-> << >> ]

\* export type Permission
Permissions ==
    { "view_dashboard", "view_tasks", "create_tasks", "edit_tasks", "delete_tasks",
      "assign_tasks", "view_team", "manage_team", "view_performance",
      "manage_performance", "view_assessments", "create_assessments",
      "edit_assessments", "view_reports", "create_reports", "edit_reports",
      "export_reports", "view_settings", "manage_settings", "view_all_data",
      "manage_organization" }

\* export type UserRole
UserRoles == { "operator", "manager", "director" }

OperatorPermissions ==
    { "view_dashboard", "view_tasks", "view_performance", "view_assessments",
      "view_settings" }

\* a manager's entry that also grants the export of reports
ManagerPermissionsWithExport ==
    { "view_dashboard", "view_tasks", "create_tasks", "edit_tasks", "assign_tasks",
      "view_team", "manage_team", "view_performance", "manage_performance",
      "view_assessments", "create_assessments", "edit_assessments",
      "view_reports", "create_reports", "edit_reports", "export_reports",
      "view_settings" }

ManagerPermissions ==
    { "view_dashboard", "view_tasks", "create_tasks", "edit_tasks", "assign_tasks",
      "view_team", "manage_team", "view_performance", "manage_performance",
      "view_assessments", "create_assessments", "edit_assessments",
      "view_reports", "create_reports", "edit_reports", "view_settings" }

DirectorPermissions ==
    { "view_dashboard", "view_tasks", "create_tasks", "edit_tasks", "delete_tasks",
      "assign_tasks", "view_team", "manage_team", "view_performance",
      "manage_performance", "view_assessments", "create_assessments",
      "edit_assessments", "view_reports", "create_reports", "edit_reports",
      "export_reports", "view_settings", "manage_settings", "view_all_data",
      "manage_organization" }

\* a table whose manager entry lacks a permission of the operator
ROLE_PERMISSIONS_ManagerLacksSettings ==
    [ role \in UserRoles |->
        IF role = "operator" THEN OperatorPermissions
        ELSE IF role = "manager" THEN ManagerPermissions \ { "view_settings" }
        ELSE DirectorPermissions ]

\* const ROLE_PERMISSIONS: Record<UserRole, Permission[]>
ROLE_PERMISSIONS ==
    [ role \in UserRoles |->
        IF role = "operator" THEN OperatorPermissions
        ELSE IF role = "manager" THEN ManagerPermissions
        ELSE DirectorPermissions ]

\* a permission check that treats a role without a table entry as an operator
hasPermissionUnknownAsOperator(permission) ==
    IF user = << >> THEN FALSE
    ELSE IF user[1].role \in DOMAIN ROLE_PERMISSIONS
    THEN permission \in ROLE_PERMISSIONS[user[1].role]
    ELSE permission \in ROLE_PERMISSIONS["operator"]

\* hasPermission(permission): false without a user, and false when the table
\* has no entry for the user's role (`?.includes(...) ?? false`)
hasPermission(permission) ==
    IF user = << >> THEN FALSE
    ELSE IF user[1].role \in DOMAIN ROLE_PERMISSIONS
    THEN permission \in ROLE_PERMISSIONS[user[1].role]
    ELSE FALSE

\* a role check that admits whoever is logged in
canAccessWhenLoggedIn(roles) ==
    user # << >>

\* canAccess(roles): false without a user, else roles.includes(user.role)
canAccess(roles) ==
    IF user = << >> THEN FALSE
    ELSE user[1].role \in roles

\* isAuthenticated: !!user && !!token
isAuthenticated == user # << >> /\ token # << >>

\* initializeAuth's role migration
MigrateRole(u) == IF u.role = "project_manager" THEN [u EXCEPT !.role = "director"] ELSE u

\* initializeAuth: the user it sets from the stored session, << >> if it sets
\* none (both keys have to be present)
RestoredUser(ls) ==
    IF ls.user # << >> /\ ls.token # << >>
    THEN << MigrateRole(ls.user[1]) >> ELSE << >>

\* initializeAuth: the token it sets from the stored session
RestoredToken(ls) ==
    IF ls.user # << >> /\ ls.token # << >> THEN ls.token ELSE << >>

\* a role that an older build stored and initializeAuth migrates, and a role
\* that no build of this table knows
MigratedRole == "project_manager"
UnknownRole == "admin"

\* what the browser's localStorage holds under the three session keys when
\* the application is loaded: nothing, or the session an older build left
\* there, with a role that is now migrated or with a role now unknown
StaleSession(role) ==
    [ user |-> << [ id |-> << "usr_old_001" >>, email |-> ManagerEmail,
                    role |-> role, isVerified |-> TRUE ] >>,
      token |-> << generateToken(<< "usr_old_001" >>, role, 0) >>,
      role |-> << role >> ]

StoredSessions ==
    { NoSession, StaleSession(MigratedRole), StaleSession(UnknownRole) }

\* The AuthProvider mounts (the page is loaded again): the component state
\* starts empty, the calls of the previous page are gone with their timers,
\* and initializeAuth restores user and token when localStorage holds both.
CInitializeAuth ==
    /\ impl = "client"
    /\ resp = NoResponse
    /\ user' = RestoredUser(lsSession)
    /\ token' = RestoredToken(lsSession)
    /\ loading' = FALSE
    /\ calls' = NoneInFlight
    /\ UNCHANGED << impl, now, ticks, tokCtr, idCtr, resp >>
    /\ UNCHANGED backendVars
    /\ UNCHANGED << lsRegisteredUsers, lsPendingVerifications,
                    lsPasswordResetTokens, lsSession >>

\* What a route element evaluates to: the page it renders, the loading
\* spinner, or <Navigate to=... replace />
Render(page) == [ kind |-> "render", page |-> page, to |-> "" ]
Spinner == [ kind |-> "spinner", page |-> "", to |-> "" ]
Navigate(to) == [ kind |-> "navigate", page |-> "", to |-> to ]

\* <ProtectedRoute allowedRoles=... requiredPermission=...>page</ProtectedRoute>;
\* << >> stands for a prop that is not passed, and no route passes fallbackPath
ProtectedRoute(allowedRoles, requiredPermission, page) ==
    IF loading THEN Spinner
    ELSE IF ~isAuthenticated \/ user = << >> THEN Navigate("/login")
    ELSE IF allowedRoles # << >> /\ ~canAccess(allowedRoles[1])
    THEN Navigate("/dashboard")
    ELSE IF requiredPermission # << >> /\ ~hasPermission(requiredPermission[1])
    THEN Navigate("/dashboard")
    ELSE Render(page)

\* <GuestOnly redirectTo=...>page</GuestOnly>
GuestOnly(redirectTo, page) ==
    IF loading THEN Spinner
    ELSE IF isAuthenticated THEN Navigate(redirectTo)
    ELSE Render(page)

\* the paths of the route table, and one path that no route names
Paths ==
    { "/", "/auth", "/login", "/forgot-password", "/reset-password",
      "/dashboard", "/tasks", "/performance", "/settings", "/profile",
      "/team", "/assessment", "/reports",
      "/operator", "/manager", "/project_manager", "/no-such-page" }

\* <Routes> of App: the element of the route that matches the path
RouteElement(path) ==
    CASE path = "/" -> Navigate("/dashboard")
      [] path = "/auth" -> GuestOnly("/dashboard", "Auth")
      [] path = "/login" -> Navigate("/auth")
      [] path = "/forgot-password" -> GuestOnly("/dashboard", "ForgotPassword")
      [] path = "/reset-password" -> GuestOnly("/dashboard", "ResetPassword")
      [] path = "/dashboard" -> ProtectedRoute(<< >>, << >>, "Dashboard")
      [] path = "/tasks" -> ProtectedRoute(<< >>, << >>, "Tasks")
      [] path = "/performance" -> ProtectedRoute(<< >>, << >>, "Performance")
      [] path = "/settings" -> ProtectedRoute(<< >>, << >>, "Settings")
      [] path = "/profile" -> ProtectedRoute(<< >>, << >>, "Profile")
      [] path = "/team" ->
            ProtectedRoute(<< { "manager", "director" } >>, << >>, "Team")
      [] path = "/assessment" ->
            ProtectedRoute(<< { "manager", "director" } >>, << >>, "Assessment")
      [] path = "/reports" ->
            ProtectedRoute(<< { "manager", "director" } >>, << >>, "Reports")
      [] path \in { "/operator", "/manager", "/project_manager" } ->
            Navigate("/dashboard")
      [] OTHER -> Render("NotFound")

\* where the router settles from a path: each <Navigate> is followed, at most
\* hops times
RECURSIVE Settle(_, _)
Settle(path, hops) ==
    IF RouteElement(path).kind = "navigate" /\ hops > 0
    THEN Settle(RouteElement(path).to, hops - 1)
    ELSE RouteElement(path)

\* a logout that clears the component state and leaves localStorage alone
CLogoutKeepsStorage ==
    /\ impl = "client"
    /\ resp = NoResponse
    /\ user' = << >>
    /\ token' = << >>
    /\ lsSession' = lsSession
    /\ resp' = Res("logout", 0, TRUE, "")
    /\ UNCHANGED << impl, now, ticks, tokCtr, idCtr >>
    /\ UNCHANGED backendVars
    /\ UNCHANGED << lsRegisteredUsers, lsPendingVerifications,
                    lsPasswordResetTokens, loading, calls >>

\* logout: setUser(null), setToken(null), the three keys removed; it has no
\* delay and leaves the loading flag alone.  It returns no value: resp only
\* records that the call has returned.
CLogout ==
    /\ impl = "client"
    /\ resp = NoResponse
    /\ user' = << >>
    /\ token' = << >>
    /\ lsSession' = NoSession
    /\ resp' = Res("logout", 0, TRUE, "")
    /\ UNCHANGED << impl, now, ticks, tokCtr, idCtr >>
    /\ UNCHANGED backendVars
    /\ UNCHANGED << lsRegisteredUsers, lsPendingVerifications,
                    lsPasswordResetTokens, loading, calls >>

\* A call enters its simulated network delay; every operation but
\* validateResetToken first sets the shared loading flag.  No statement reads
\* the operation's name or its arguments before the delay is over, so a
\* suspended call is held as the kind of its first statement and the step that
\* runs a body draws the arguments.
CallKind(op) == IF op = "validateResetToken" THEN "delay" ELSE "loading+delay"

CallStart(op) ==
    /\ impl = "client"
    /\ resp = NoResponse
    /\ HasFreeSlot(calls)
    /\ calls' = Suspend(calls, CallKind(op))
    /\ loading' = IF op = "validateResetToken" THEN loading ELSE TRUE
    /\ UNCHANGED << impl, now, ticks, tokCtr, idCtr, resp >>
    /\ UNCHANGED backendVars
    /\ UNCHANGED << lsRegisteredUsers, lsPendingVerifications,
                    lsPasswordResetTokens, lsSession, user, token >>

\* signup, after the delay: the result for (email, password) in a given state
CSignupResult(registeredUsers, email, password) ==
    LET normalizedEmail == NormalizeEmail(email) IN
    IF MapHas(DEMO_USERS, normalizedEmail)
    THEN Res("signup", 0, FALSE, "An account with this email already exists")
    ELSE IF MapHas(registeredUsers, normalizedEmail)
    THEN Res("signup", 0, FALSE, "An account with this email already exists")
    ELSE IF Len(password) < MIN_PASSWORD_LENGTH
    THEN Res("signup", 0, FALSE, "Password must be at least 6 characters")
    ELSE IF EncodeURIComponentThrows(normalizedEmail)
    THEN Res("signup", 0, FALSE, "An unexpected error occurred")
    ELSE [Res("signup", 0, TRUE, "") EXCEPT !.requiresVerification = TRUE]

\* signup reaches its writes to localStorage: no early return was taken
CSignupStores(registeredUsers, email, password) ==
    /\ ~MapHas(DEMO_USERS, NormalizeEmail(email))
    /\ ~MapHas(registeredUsers, NormalizeEmail(email))
    /\ Len(password) >= MIN_PASSWORD_LENGTH

CSignup(email, password) ==
    /\ impl = "client"
    /\ resp = NoResponse
    /\ BagIn(CallKind("signup"), calls)
    /\ LET normalizedEmail == NormalizeEmail(email)
           r == CSignupResult(lsRegisteredUsers, email, password)
           stores == CSignupStores(lsRegisteredUsers, email, password)
           verificationToken == RandomToken(tokCtr + 1)
           newUser == [ id |-> NewUserId(now, idCtr + 1), email |-> normalizedEmail,
                        role |-> "operator", isVerified |-> FALSE ]
       IN /\ stores => /\ tokCtr < MaxTokens
                      /\ Cardinality(DOMAIN lsRegisteredUsers) < MaxSignups
          /\ resp' = r
          /\ IF stores
             THEN /\ lsRegisteredUsers' =
                         MapSet(lsRegisteredUsers, normalizedEmail,
                                [ hashedPassword |-> hashPassword(password),
                                  user |-> newUser,
                                  verificationToken |-> verificationToken ])
                  /\ lsPendingVerifications' =
                         MapSet(lsPendingVerifications, normalizedEmail,
                                [ token |-> verificationToken,
                                  email |-> normalizedEmail,
                                  expiresAt |-> now + VERIFY_TTL ])
                  /\ tokCtr' = tokCtr + 1
                  /\ idCtr' = idCtr + 1
             ELSE UNCHANGED << lsRegisteredUsers, lsPendingVerifications, tokCtr, idCtr >>
    /\ loading' = FALSE
    /\ calls' = Resume(calls, CallKind("signup"))
    /\ UNCHANGED << impl, now, ticks >>
    /\ UNCHANGED backendVars
    /\ UNCHANGED << lsPasswordResetTokens, lsSession, user, token >>

\* verifyEmail, after the delay: the result for (email, token) in a given state
CVerifyEmailResult(pending, t, email, tok) ==
    LET normalizedEmail == NormalizeEmail(email) IN
    IF ~MapHas(pending, normalizedEmail)
    THEN Res("verifyEmail", 0, FALSE, "Verification link is invalid or has expired")
    ELSE IF pending[normalizedEmail].token # tok
    THEN Res("verifyEmail", 0, FALSE, "Invalid verification token")
    ELSE IF Expired(t, pending[normalizedEmail].expiresAt)
    THEN Res("verifyEmail", 0, FALSE,
             "Verification link has expired. Please sign up again.")
    ELSE Res("verifyEmail", 0, TRUE, "")

CVerifyEmail(email, tok) ==
    /\ impl = "client"
    /\ resp = NoResponse
    /\ BagIn(CallKind("verifyEmail"), calls)
    /\ LET normalizedEmail == NormalizeEmail(email)
           r == CVerifyEmailResult(lsPendingVerifications, now,
                                   email, tok)
       IN /\ resp' = r
          /\ lsRegisteredUsers' =
                 IF r.success /\ MapHas(lsRegisteredUsers, normalizedEmail)
                 THEN [lsRegisteredUsers EXCEPT
                          ![normalizedEmail].user.isVerified = TRUE,
                          ![normalizedEmail].verificationToken = << >>]
                 ELSE lsRegisteredUsers
          /\ lsPendingVerifications' =
                 IF r.success
                    \/ r.message = "Verification link has expired. Please sign up again."
                 THEN MapDelete(lsPendingVerifications, normalizedEmail)
                 ELSE lsPendingVerifications
    /\ loading' = FALSE
    /\ calls' = Resume(calls, CallKind("verifyEmail"))
    /\ UNCHANGED << impl, now, ticks, tokCtr, idCtr >>
    /\ UNCHANGED backendVars
    /\ UNCHANGED << lsPasswordResetTokens, lsSession, user, token >>

\* let demoUser = DEMO_USERS[e]; if (!demoUser) demoUser = getRegisteredUsers()[e]
\* << >> when neither holds the email
LookupUser(registeredUsers, normalizedEmail) ==
    IF MapHas(DEMO_USERS, normalizedEmail) THEN << DEMO_USERS[normalizedEmail] >>
    ELSE IF MapHas(registeredUsers, normalizedEmail)
    THEN << registeredUsers[normalizedEmail] >>
    ELSE << >>

\* login, after the delay: the result for (email, password) in a given state
CLoginResult(registeredUsers, email, password) ==
    LET found == LookupUser(registeredUsers, NormalizeEmail(email)) IN
    IF found = << >>
    THEN Res("login", 0, FALSE, "No account found with this email")
    ELSE IF found[1].user.isVerified = FALSE
    THEN [Res("login", 0, FALSE, "Please verify your email before logging in")
            EXCEPT !.requiresVerification = TRUE]
    ELSE IF hashPassword(password) # found[1].hashedPassword
    THEN Res("login", 0, FALSE, "Incorrect password")
    ELSE Res("login", 0, TRUE, "")

\* a login that forgets the in-memory user when it fails
CLoginDropsUserOnFailure(email, password) ==
    /\ impl = "client"
    /\ resp = NoResponse
    /\ BagIn(CallKind("login"), calls)
    /\ LET r == CLoginResult(lsRegisteredUsers, email, password)
           found == LookupUser(lsRegisteredUsers, NormalizeEmail(email))
       IN /\ resp' = r
          /\ IF r.success
             THEN LET newToken == generateToken(found[1].user.id, found[1].user.role, now)
                  IN /\ lsSession' = [ user |-> << found[1].user >>,
                                       token |-> << newToken >>,
                                       role |-> << found[1].user.role >> ]
                     /\ user' = << found[1].user >>
                     /\ token' = << newToken >>
             ELSE user' = << >> /\ UNCHANGED << lsSession, token >>
    /\ loading' = FALSE
    /\ calls' = Resume(calls, CallKind("login"))
    /\ UNCHANGED << impl, now, ticks, tokCtr, idCtr >>
    /\ UNCHANGED backendVars
    /\ UNCHANGED << lsRegisteredUsers, lsPendingVerifications, lsPasswordResetTokens >>

CLogin(email, password) ==
    /\ impl = "client"
    /\ resp = NoResponse
    /\ BagIn(CallKind("login"), calls)
    /\ LET r == CLoginResult(lsRegisteredUsers, email, password)
           found == LookupUser(lsRegisteredUsers, NormalizeEmail(email))
       IN /\ resp' = r
          /\ IF r.success
             THEN LET newToken == generateToken(found[1].user.id, found[1].user.role, now)
                  IN /\ lsSession' = [ user |-> << found[1].user >>,
                                       token |-> << newToken >>,
                                       role |-> << found[1].user.role >> ]
                     /\ user' = << found[1].user >>
                     /\ token' = << newToken >>
             ELSE UNCHANGED << lsSession, user, token >>
    /\ loading' = FALSE
    /\ calls' = Resume(calls, CallKind("login"))
    /\ UNCHANGED << impl, now, ticks, tokCtr, idCtr >>
    /\ UNCHANGED backendVars
    /\ UNCHANGED << lsRegisteredUsers, lsPendingVerifications, lsPasswordResetTokens >>

\* requestPasswordReset, after the delay: the result for an email in a given state
CRequestPasswordResetResult(registeredUsers, email) ==
    IF LookupUser(registeredUsers, NormalizeEmail(email)) = << >>
    THEN Res("requestPasswordReset", 0, FALSE, "No account found with this email")
    ELSE Res("requestPasswordReset", 0, TRUE, "")

CRequestPasswordReset(email) ==
    /\ impl = "client"
    /\ resp = NoResponse
    /\ BagIn(CallKind("requestPasswordReset"), calls)
    /\ LET normalizedEmail == NormalizeEmail(email)
           r == CRequestPasswordResetResult(lsRegisteredUsers, email)
       IN /\ r.success => tokCtr < MaxTokens
          /\ resp' = r
          /\ IF r.success
             THEN /\ lsPasswordResetTokens' =
                         MapSet(lsPasswordResetTokens, normalizedEmail,
                                [ token |-> RandomToken(tokCtr + 1),
                                  expiresAt |-> now + RESET_TTL ])
                  /\ tokCtr' = tokCtr + 1
             ELSE UNCHANGED << lsPasswordResetTokens, tokCtr >>
    /\ loading' = FALSE
    /\ calls' = Resume(calls, CallKind("requestPasswordReset"))
    /\ UNCHANGED << impl, now, ticks, idCtr >>
    /\ UNCHANGED backendVars
    /\ UNCHANGED << lsRegisteredUsers, lsPendingVerifications, lsSession, user, token >>

\* validateResetToken, after the delay: the result for (email, token) in a given state
CValidateResetTokenResult(tokens, t, email, tok) ==
    LET normalizedEmail == NormalizeEmail(email) IN
    IF ~MapHas(tokens, normalizedEmail)
    THEN Res("validateResetToken", 0, FALSE, "Invalid or expired reset link")
    ELSE IF tokens[normalizedEmail].token # tok
    THEN Res("validateResetToken", 0, FALSE, "Invalid reset token")
    ELSE IF Expired(t, tokens[normalizedEmail].expiresAt)
    THEN Res("validateResetToken", 0, FALSE, "Reset link has expired")
    ELSE Res("validateResetToken", 0, TRUE, "")

\* the reset-token store after validateResetToken(email, tok) has run
CValidateResetTokenStore(tokens, t, email, tok) ==
    IF CValidateResetTokenResult(tokens, t, email, tok).message = "Reset link has expired"
    THEN MapDelete(tokens, NormalizeEmail(email))
    ELSE tokens

CValidateResetToken(email, tok) ==
    /\ impl = "client"
    /\ resp = NoResponse
    /\ BagIn(CallKind("validateResetToken"), calls)
    /\ resp' = CValidateResetTokenResult(lsPasswordResetTokens, now,
                                         email, tok)
    /\ lsPasswordResetTokens' =
           CValidateResetTokenStore(lsPasswordResetTokens, now,
                                    email, tok)
    /\ calls' = Resume(calls, CallKind("validateResetToken"))
    /\ UNCHANGED << impl, now, ticks, tokCtr, idCtr, loading >>
    /\ UNCHANGED backendVars
    /\ UNCHANGED << lsRegisteredUsers, lsPendingVerifications, lsSession, user, token >>

\* resetPassword, after the delay: the result for (email, token, newPassword);
\* the token is validated by calling validateResetToken(normalizedEmail, token)
CResetPasswordResult(tokens, t, email, tok, newPassword) ==
    LET tokenValidation ==
            CValidateResetTokenResult(tokens, t, NormalizeEmail(email), tok) IN
    IF ~tokenValidation.success
    THEN Res("resetPassword", 0, FALSE, tokenValidation.message)
    ELSE IF Len(newPassword) < MIN_PASSWORD_LENGTH
    THEN Res("resetPassword", 0, FALSE, "Password must be at least 6 characters")
    ELSE Res("resetPassword", 0, TRUE, "")

CResetPassword(email, tok, password) ==
    /\ impl = "client"
    /\ resp = NoResponse
    /\ BagIn(CallKind("resetPassword"), calls)
    /\ LET normalizedEmail == NormalizeEmail(email)
           r == CResetPasswordResult(lsPasswordResetTokens, now, email,
                                     tok, password)
       IN /\ resp' = r
          /\ lsRegisteredUsers' =
                 IF r.success /\ MapHas(lsRegisteredUsers, normalizedEmail)
                 THEN [lsRegisteredUsers EXCEPT ![normalizedEmail].hashedPassword =
                          hashPassword(password)]
                 ELSE lsRegisteredUsers
          /\ lsPasswordResetTokens' =
                 IF r.success
                 THEN MapDelete(lsPasswordResetTokens, normalizedEmail)
                 ELSE CValidateResetTokenStore(lsPasswordResetTokens, now,
                                               normalizedEmail, tok)
    /\ loading' = FALSE
    /\ calls' = Resume(calls, CallKind("resetPassword"))
    /\ UNCHANGED << impl, now, ticks, tokCtr, idCtr >>
    /\ UNCHANGED backendVars
    /\ UNCHANGED << lsPendingVerifications, lsSession, user, token >>

----------------------------------------------------------------------------
(* Inputs *)

NewPassword == << "n","e","w","p","a","s","s","1" >>
ShortPassword == << "a","b","c" >>
JaneName == << "J","a","n","e" >>

\* a token string that no draw ever returns
ForgedToken == << "forged" >>

\* the tokens a caller can present: the ones minted so far, a forged one, none
Tokens == { NoString, ForgedToken } \cup { RandomToken(n) : n \in 1..tokCtr }

\* e-mail arguments of the operations other than signup: every one of them
\* normalizes its argument before anything else
Emails == { JaneVariant, ResetJane, ManagerEmail, NoString }

SignupInputs ==
    { << JaneName, e, p >> :
          e \in { Jane, JaneUpper, JanePadded, ResetJane, ManagerEmail },
          p \in { DemoPassword, ShortPassword } }
    \cup { << JaneName, SurrogateEmail, DemoPassword >>,
           << NoString, Jane, DemoPassword >>,
           << JaneName, NoString, DemoPassword >>,
           << JaneName, Jane, NoString >> }

\* the client's signup takes (name, email, password) and reads no name
CSignupInputs == { << i[2], i[3] >> : i \in SignupInputs }

ClientOps == { "signup", "verifyEmail", "login", "requestPasswordReset",
               "validateResetToken", "resetPassword" }

LoginInputs ==
    { << e, p >> : e \in Emails, p \in { DemoPassword, NewPassword } }
    \cup { << JaneVariant, NoString >> }

ResetPasswordInputs ==
    { << e, t, p >> : e \in Emails \ { NoString }, t \in Tokens \ { NoString },
                      p \in { NewPassword, ShortPassword } }
    \cup { << NoString, ForgedToken, NewPassword >>,
           << JaneVariant, NoString, NewPassword >>,
           << JaneVariant, ForgedToken, NoString >> }

\* the clock advances by the reset TTL, by the verification TTL or by both, so
\* that a check can fall exactly on an expiry time and past it
\* the Authorization headers a caller can send: none, a forged token, the
\* token a login of the demo manager returned at time 0 or returns now
Authorizations ==
    { NoString, ForgedToken }
        \cup { SignedToken(JwtSign(users[FindUser(users, ManagerEmail)], t)) :
                 t \in { 0, now } }

TickSteps == { RESET_TTL, VERIFY_TTL, VERIFY_TTL + RESET_TTL }

----------------
(* Specification *)

Tick(d) ==
    /\ resp = NoResponse
    /\ ticks < MaxTicks
    /\ now' = now + d
    /\ ticks' = ticks + 1
    /\ UNCHANGED << impl, tokCtr, idCtr, resp >>
    /\ UNCHANGED backendVars
    /\ UNCHANGED clientVars

Init ==
    /\ impl \in { "backend", "client" }
    /\ now = 0
    /\ ticks = 0
    /\ tokCtr = 0
    /\ idCtr = 0
    /\ users = BackendDemoUsers
    /\ pendingVerifications = EmptyMap
    /\ req = NoneInFlight
    /\ resetsDone = { }
    /\ resp = NoResponse
    /\ lsRegisteredUsers = EmptyMap
    /\ lsPendingVerifications = EmptyMap
    /\ lsPasswordResetTokens = EmptyMap
    /\ lsSession \in IF impl = "client" THEN StoredSessions ELSE { NoSession }
    /\ user = RestoredUser(lsSession)
    /\ token = RestoredToken(lsSession)
    /\ loading = FALSE
    /\ calls = NoneInFlight

\* The response written by the last step leaves the process: it reaches the
\* caller before the next step of the model is taken (every other action
\* waits for resp = NoResponse).
Deliver ==
    /\ resp # NoResponse
    /\ resp' = NoResponse
    /\ UNCHANGED << impl, now, ticks, tokCtr, idCtr >>
    /\ UNCHANGED backendVars
    /\ UNCHANGED clientVars

Next ==
    \/ Deliver
    \/ \E d \in TickSteps : Tick(d)
    \/ \E i \in SignupInputs : BSignup(i[1], i[2], i[3])
    \/ \E r \in BagToSet(req) : BSignupResume(r)
    \/ \E e \in Emails, t \in Tokens : BVerifyEmail(e, t)
    \/ \E e \in Emails : BResendVerification(e)
    \/ \E i \in LoginInputs : BLogin(i[1], i[2])
    \/ \E e \in Emails : BRequestPasswordReset(e)
    \/ \E e \in Emails, t \in Tokens : BValidateResetToken(e, t)
    \/ \E i \in ResetPasswordInputs : BResetPassword(i[1], i[2], i[3])
    \/ \E r \in BagToSet(req) : BResetPasswordResume(r)
    \/ \E a \in Authorizations : BVerifySession(a)
    \/ BLogout
    \/ CInitializeAuth
    \/ CLogout
    \/ \E op \in ClientOps : CallStart(op)
    \/ \E i \in CSignupInputs : CSignup(i[1], i[2])
    \/ \E e \in Emails, t \in Tokens : CVerifyEmail(e, t)
    \/ \E i \in LoginInputs : CLogin(i[1], i[2])
    \/ \E e \in Emails : CRequestPasswordReset(e)
    \/ \E e \in Emails, t \in Tokens : CValidateResetToken(e, t)
    \/ \E i \in ResetPasswordInputs : CResetPassword(i[1], i[2], i[3])

Spec == Init /\ [][Next]_vars

----------------------------------------------------------------------------
(* Vocabulary of the properties *)

NormalizedEmails == { NormalizeEmail(e) : e \in Emails \cup { i[2] : i \in SignupInputs } }
ValidPasswords == { DemoPassword, NewPassword }

\* the step taken answers a call of op (resp is empty before every such step)
Answers(op) == resp = NoResponse /\ resp'.op = op

\* the pending password-reset entry of a normalized email, << >> if none
ResetEntry(a) ==
    IF impl = "backend"
    THEN IF MapHas(pendingVerifications, ResetKey(a))
         THEN << pendingVerifications[ResetKey(a)] >> ELSE << >>
    ELSE IF MapHas(lsPasswordResetTokens, a)
         THEN << lsPasswordResetTokens[a] >> ELSE << >>

\* the pending e-mail verification entry of a normalized email, << >> if none
VerificationEntry(b) ==
    IF impl = "backend"
    THEN IF MapHas(pendingVerifications, b)
         THEN << pendingVerifications[b] >> ELSE << >>
    ELSE IF MapHas(lsPendingVerifications, b)
         THEN << lsPendingVerifications[b] >> ELSE << >>

\* the credential store
Credentials == IF impl = "backend" THEN users ELSE lsRegisteredUsers

\* what login(email, password) answers in the current state
LoginAnswer(email, password) ==
    IF impl = "backend"
    THEN LoginResponse(users, now, email, password)
    ELSE CLoginResult(lsRegisteredUsers, email, password)

\* what validateResetToken(email, tok) answers in the current state
ValidateAnswer(email, tok) ==
    IF impl = "backend"
    THEN ValidateResetTokenResponse(pendingVerifications, now, email, tok)
    ELSE CValidateResetTokenResult(lsPasswordResetTokens, now, email, tok)

\* what verifyEmail(email, tok) answers in the current state
VerifyAnswer(email, tok) ==
    IF impl = "backend"
    THEN VerifyEmailResponse(pendingVerifications, now, email, tok)
    ELSE CVerifyEmailResult(lsPendingVerifications, now, email, tok)

\* resetPassword(email, tok, newPassword) passes every check in the current state
ResetAccepted(email, tok, newPassword) ==
    IF impl = "backend"
    THEN ResetPasswordRejection(pendingVerifications, now, email, tok, newPassword) = << >>
    ELSE CResetPasswordResult(lsPasswordResetTokens, now, email, tok, newPassword).success

\* what resetPassword(email, tok, newPassword) answers when a check fails
ResetRejection(email, tok, newPassword) ==
    IF impl = "backend"
    THEN ResetPasswordRejection(pendingVerifications, now, email, tok, newPassword)[1]
    ELSE CResetPasswordResult(lsPasswordResetTokens, now, email, tok, newPassword)

\* the step taken is validateResetToken(email, tok)
ValidateChecked(email, tok) ==
    /\ Answers("validateResetToken")
    /\ \/ BValidateResetToken(email, tok)
       \/ CValidateResetToken(email, tok)

\* the step taken is verifyEmail(email, tok)
VerifyChecked(email, tok) ==
    /\ Answers("verifyEmail")
    /\ \/ BVerifyEmail(email, tok)
       \/ CVerifyEmail(email, tok)

\* the step taken is verifyEmail(email, tok) answering success
VerifySucceeds(email, tok) ==
    /\ Answers("verifyEmail")
    /\ resp'.success
    /\ \/ BVerifyEmail(email, tok)
       \/ CVerifyEmail(email, tok)

\* the step taken is resetPassword(email, tok, newPassword) answering success:
\* in the backend the resumed request, or the whole handler when no user is found
ResetSucceeds(email, tok, newPassword) ==
    /\ Answers("resetPassword")
    /\ resp'.success
    /\ \/ BResetPassword(email, tok, newPassword)
       \/ \E r \in BagToSet(req) :
              /\ r.tok = tok
              /\ r.password = newPassword
              /\ r.email = NormalizeEmail(email)
              /\ BResetPasswordResume(r)
       \/ CResetPassword(email, tok, newPassword)

\* the step taken runs the checks of resetPassword(email, tok, newPassword)
ResetChecked(email, tok, newPassword) ==
    /\ Answers("resetPassword") \/ req' # req
    /\ \/ BResetPassword(email, tok, newPassword)
       \/ CResetPassword(email, tok, newPassword)

----------------------------------------------------------------------------
(* C1 .. C10 *)

\* C1: concurrent signups for one normalized email never both create an
\* account: the users array never holds two records with the same email.
C1_NoTwoRecordsWithOneEmail ==
    \A i, j \in DOMAIN users : i # j => users[i].email # users[j].email

\* C2: the verification and the reset namespace never collide: a signup or a
\* resendVerification leaves the reset entry of every email as it was, and a
\* requestPasswordReset leaves the verification entry of every email as it was.
C2_NamespacesNeverCollide ==
    [][ \A a \in NormalizedEmails :
          /\ (Answers("signup") \/ Answers("resendVerification"))
                => ResetEntry(a)' = ResetEntry(a)
          /\ Answers("requestPasswordReset")
                => VerificationEntry(a)' = VerificationEntry(a) ]_vars

\* C3: of two concurrent backend resetPassword completions presenting the same
\* token only the first succeeds: no completion answers success for an
\* (email, token) pair that an earlier completion was already answered
\* success for.
C3_FirstResetConsumerWins ==
    [][ \A r \in BagToSet(req) :
          BResetPasswordResume(r) => << r.email, r.tok >> \notin resetsDone ]_vars

\* C4: a signup with a name and an acceptable password, for an email that
\* normalizes to E, is answered DuplicateEmail when an account for E exists and
\* succeeds (passes every check) when none exists, whatever the
\* casing or surrounding whitespace of the email.
HasAccount(e) ==
    IF impl = "backend" THEN FindUser(users, e) # 0
    ELSE LookupUser(lsRegisteredUsers, e) # << >>

C4_SignupOncePerNormalizedEmail ==
    [][ \A i \in SignupInputs :
          ( /\ ~Missing(i[1]) /\ ~Missing(i[2])
            /\ Len(i[3]) >= MIN_PASSWORD_LENGTH
            /\ BSignup(i[1], i[2], i[3]) \/ CSignup(i[2], i[3]) )
          => IF HasAccount(NormalizeEmail(i[2]))
             THEN /\ resp'.message = "An account with this email already exists"
                  /\ impl = "backend" => resp'.status = 409
             ELSE IF impl = "backend"
             THEN resp' = NoResponse /\ req' # req
             ELSE resp'.success ]_vars

\* C5: requestPasswordReset answers an email that has an account exactly as it
\* answers an email that has none.
RequestPasswordResetAnswer(email) ==
    IF impl = "backend"
    THEN RequestPasswordResetResponse(users, email)
    ELSE CRequestPasswordResetResult(lsRegisteredUsers, email)

C5_ResetRequestDoesNotRevealAccounts ==
    [][ \A e \in Emails \ { NoString } :
          (BRequestPasswordReset(e) \/ CRequestPasswordReset(e))
          => \A other \in Emails \ { NoString } :
                 resp' = RequestPasswordResetAnswer(other) ]_vars

\* C6: for every account record, a login with the record's email and its
\* correct password is answered NotVerified, with no session token, when the
\* record's verification flag is false, and succeeds when the flag is true.
AccountRecords ==
    IF impl = "backend"
    THEN { [ email |-> users[i].email, isVerified |-> users[i].isVerified,
             passwords |-> { p \in ValidPasswords :
                                 bcryptCompare(p, users[i].password) } ] :
           i \in DOMAIN users }
    ELSE { [ email |-> e,
             isVerified |-> LookupUser(lsRegisteredUsers, e)[1].user.isVerified,
             passwords |-> { p \in ValidPasswords :
                                 hashPassword(p) =
                                 LookupUser(lsRegisteredUsers, e)[1].hashedPassword } ] :
           e \in DOMAIN DEMO_USERS \cup DOMAIN lsRegisteredUsers }

NotVerified(answer) ==
    /\ ~answer.success
    /\ answer.requiresVerification
    /\ answer.message = "Please verify your email before logging in"
    /\ answer.token = << >>
    /\ impl = "backend" => answer.status = 403

C6_VerificationGating ==
    \A a \in AccountRecords : \A p \in a.passwords :
        IF a.isVerified
        THEN LoginAnswer(a.email, p).success
        ELSE NotVerified(LoginAnswer(a.email, p))

\* C7: tokens are single-use.  Right after verifyEmail(email, T) succeeds,
\* verifyEmail(email, T) fails; right after resetPassword(email, T, p) succeeds,
\* validateResetToken(email, T) fails and resetPassword(email, T, p') fails for
\* every p'; each of these failures is an invalid-or-expired-token outcome.
InvalidOrExpiredToken(answer) ==
    /\ ~answer.success
    /\ answer.message \in { "Verification link is invalid or has expired",
                            "Invalid verification token",
                            "Verification link has expired. Please sign up again.",
                            "Invalid or expired reset link",
                            "Invalid reset token",
                            "Reset link has expired" }
    /\ impl = "backend" => answer.status = 400

SecondUseFails(e, t, passwords) ==
    /\ VerifySucceeds(e, t) => InvalidOrExpiredToken(VerifyAnswer(e, t))'
    /\ (\E p \in { NewPassword, ShortPassword } : ResetSucceeds(e, t, p))
          => /\ InvalidOrExpiredToken(ValidateAnswer(e, t))'
             /\ \A q \in passwords :
                    /\ ~ResetAccepted(e, t, q)'
                    /\ InvalidOrExpiredToken(ResetRejection(e, t, q))'

C7_TokenSingleUse ==
    [][ \A e \in Emails : \A t \in Tokens :
          SecondUseFails(e, t, { NewPassword, DemoPassword, ShortPassword }) ]_vars

\* The same with p' of an acceptable length only: this much holds in both
\* implementations.
SingleUseWithAcceptablePassword ==
    [][ \A e \in Emails : \A t \in Tokens :
          SecondUseFails(e, t, ValidPasswords) ]_vars

\* C8: a token whose expiry is in the past is rejected by verifyEmail,
\* validateResetToken and resetPassword even when its value matches, and the
\* rejecting step leaves every account record (verification flag, password
\* hash) as it was, so every login is answered as before.
EntryExpiry(entry) == IF impl = "backend" THEN entry.expiry ELSE entry.expiresAt

TokenPastExpiry(entry, tok) ==
    /\ entry # << >>
    /\ entry[1].token = tok
    /\ now > EntryExpiry(entry[1])

RejectedWithoutEffect ==
    /\ resp' # NoResponse
    /\ ~resp'.success
    /\ Credentials' = Credentials
    /\ \A a \in NormalizedEmails : \A p \in ValidPasswords :
           LoginAnswer(a, p)' = LoginAnswer(a, p)

C8_ExpiryEnforced ==
    [][ \A e \in Emails \ { NoString } : \A t \in Tokens \ { NoString } :
          /\ ( /\ VerifyChecked(e, t)
               /\ TokenPastExpiry(VerificationEntry(NormalizeEmail(e)), t) )
                => RejectedWithoutEffect
          /\ ( /\ \/ ValidateChecked(e, t)
                  \/ \E p \in { NewPassword, ShortPassword } : ResetChecked(e, t, p)
               /\ TokenPastExpiry(ResetEntry(NormalizeEmail(e)), t) )
                => RejectedWithoutEffect ]_vars

\* a resetPassword presenting the stored token has just been rejected as expired
C8_ExpiredResetRejected ==
    /\ resp.op = "resetPassword"
    /\ resp.message = "Reset link has expired"

\* C9: after resetPassword(email, T, newPassword) reports success for a
\* verified account, a login with newPassword succeeds and a login with any
\* other password fails.
C9_ResetReplacesPassword ==
    [][ \A e \in Emails : \A t \in Tokens : \A p \in ValidPasswords :
          ( /\ ResetSucceeds(e, t, p)
            /\ \E a \in AccountRecords : a.email = NormalizeEmail(e) /\ a.isVerified )
          => /\ LoginAnswer(e, p)'.success
             /\ \A q \in ValidPasswords \ { p } : ~LoginAnswer(e, q)'.success ]_vars

\* C10: in every state and for every (email, token, newPassword), when
\* resetPassword passes its checks (and so goes on to replace the hash and
\* answer success), validateResetToken answers success for (email, token).
C10_ResetImpliesValidate ==
    \A e \in Emails : \A t \in Tokens : \A p \in { NewPassword, ShortPassword } :
        ResetAccepted(e, t, p) => ValidateAnswer(e, t).success

\* a backend resetPassword that passed its checks has been answered success
C10_ResetAnswered ==
    /\ resp = ResetPasswordDone
    /\ resetsDone # { }
    /\ \E i \in DOMAIN users : users[i].password = bcryptHash(NewPassword, 12)

----------------------------------------------------------------------------
(* C11 .. C20 *)

\* C11: at most one live token per (email, purpose).  Right after
\* resendVerification mints a token for an email, verifyEmail accepts that
\* token for the email and no other; right after requestPasswordReset mints a
\* token for an email, validateResetToken and resetPassword accept that token
\* for the email and no other (so a token minted earlier is dead).
Minted == RandomToken(tokCtr)

Mints(op) == Answers(op) /\ tokCtr' = tokCtr + 1

C11_OneLiveTokenPerPurpose ==
    [][ \A e \in Emails :
          /\ (Mints("resendVerification") /\ BResendVerification(e))
                => \A t \in Tokens' :
                       VerifyAnswer(e, t)'.success <=> t = Minted'
          /\ ( /\ Mints("requestPasswordReset")
               /\ BRequestPasswordReset(e) \/ CRequestPasswordReset(e) )
                => \A t \in Tokens' :
                       /\ ValidateAnswer(e, t)'.success <=> t = Minted'
                       /\ ResetAccepted(e, t, NewPassword)' <=> t = Minted' ]_vars

\* resendVerification has just replaced the token minted by the signup of an
\* account that is still unverified
C11_TokenReplaced ==
    /\ impl = "backend"
    /\ resp.op = "resendVerification"
    /\ resp.success
    /\ tokCtr = 2
    /\ ticks = 0
    /\ Len(users) = Len(BackendDemoUsers) + 1
    /\ \E e \in NormalizedEmails :
           /\ VerificationEntry(e) # << >>
           /\ VerificationEntry(e)[1].token = RandomToken(2)
           /\ VerificationEntry(e)[1].userId = users[Len(users)].id

\* C12: validateResetToken is a pure check: whatever the input and the state,
\* a step that answers it leaves the reset-token store, the verification-token
\* store and the credential store as they were.
TokenStores ==
    IF impl = "backend"
    THEN << pendingVerifications >>
    ELSE << lsPasswordResetTokens, lsPendingVerifications >>

C12_ValidateResetTokenIsPure ==
    [][ Answers("validateResetToken")
          => /\ TokenStores' = TokenStores
             /\ Credentials' = Credentials ]_vars

\* the payload that generateToken encoded into the session token in use
SessionPayload == token[1][2]

\* C13: a session is valid only while the current time is before the token's
\* expiry: the client reports isAuthenticated only before the exp of its
\* session token, and the backend's protected route answers 200 only to a
\* token whose exp is still ahead.
C13_SessionValidOnlyBeforeExpiry ==
    /\ (impl = "client" /\ isAuthenticated) => now < SessionPayload.exp
    /\ (impl = "backend" /\ resp.op = "verifySession" /\ resp.success)
          => (now \div 1000) < resp.user[1].exp

\* C14: a signup that returns a failure leaves no partial mutation: the
\* account store is after the answer what it was before it, so a failed signup
\* never creates an account (backend and client).
C14_FailedSignupCreatesNoAccount ==
    [][ (Answers("signup") /\ ~resp'.success) => Credentials' = Credentials ]_vars

\* status and message of an answer
Outcome(answer) == << answer.status, answer.message >>

\* C15: token failures are indistinguishable by cause: whenever verifyEmail,
\* validateResetToken or resetPassword reject two presented (email, token)
\* pairs, whatever the cause (no entry, wrong token, used token, expired
\* token), the two rejections carry the same status and the same message.
C15_TokenFailuresIndistinguishable ==
    \A e1 \in Emails \ { NoString }, e2 \in Emails \ { NoString } :
      \A t1 \in Tokens \ { NoString }, t2 \in Tokens \ { NoString } :
        /\ (~VerifyAnswer(e1, t1).success /\ ~VerifyAnswer(e2, t2).success)
              => Outcome(VerifyAnswer(e1, t1)) = Outcome(VerifyAnswer(e2, t2))
        /\ (~ValidateAnswer(e1, t1).success /\ ~ValidateAnswer(e2, t2).success)
              => Outcome(ValidateAnswer(e1, t1)) = Outcome(ValidateAnswer(e2, t2))
        /\ (~ResetAccepted(e1, t1, NewPassword) /\ ~ResetAccepted(e2, t2, NewPassword))
              => Outcome(ResetRejection(e1, t1, NewPassword))
                    = Outcome(ResetRejection(e2, t2, NewPassword))

\* the verification flag of every registered account: by position in the
\* backend's users, by key in the client's registered users
VerificationFlags ==
    IF impl = "backend"
    THEN [ i \in 1..Len(users) |-> users[i].isVerified ]
    ELSE [ a \in DOMAIN lsRegisteredUsers |-> lsRegisteredUsers[a].user.isVerified ]

\* C16: registration state machine: no step removes an account or takes a
\* verification back, a new account starts unverified, a flag becomes true
\* only on a step where verifyEmail answers success, and a step where
\* resetPassword answers (success or failure) changes no flag.
C16_VerifiedIsTerminal ==
    [][ /\ \A k \in DOMAIN VerificationFlags :
              /\ k \in DOMAIN VerificationFlags'
              /\ VerificationFlags[k] => VerificationFlags'[k]
              /\ (~VerificationFlags[k] /\ VerificationFlags'[k])
                    => (Answers("verifyEmail") /\ resp'.success)
        /\ \A k \in DOMAIN VerificationFlags' \ DOMAIN VerificationFlags :
              ~VerificationFlags'[k]
        /\ Answers("resetPassword") => VerificationFlags' = VerificationFlags ]_vars

\* resetPassword has answered success for an account that signed up and
\* was verified, and the account is still verified
C16_VerifiedAccountReset ==
    /\ resp.op = "resetPassword"
    /\ resp.success
    /\ \E k \in DOMAIN VerificationFlags :
          /\ VerificationFlags[k]
          /\ impl = "backend" => /\ k > Len(BackendDemoUsers)
                                 /\ users[k].password = bcryptHash(NewPassword, 12)
          /\ impl = "client" => lsRegisteredUsers[k].hashedPassword = hashPassword(NewPassword)

\* (name, email, password) that the validation of signup has to refuse
InvalidSignup(name, email, password) ==
    \/ Missing(name) \/ Missing(email) \/ Missing(password)
    \/ ~EmailRegexTest(email)
    \/ Len(password) < MIN_PASSWORD_LENGTH

\* C17: signup with a missing name, email or password, a malformed email or a
\* password shorter than 6 characters fails with a validation error (status
\* 400 in the backend) and creates no account and no verification token, in
\* the backend handler and in the client's signup called directly.
C17_SignupValidation ==
    [][ \A i \in SignupInputs :
          ( /\ Answers("signup")
            /\ InvalidSignup(i[1], i[2], i[3])
            /\ BSignup(i[1], i[2], i[3]) \/ CSignup(i[2], i[3]) )
          => /\ ~resp'.success
             /\ impl = "backend" => resp'.status = 400
             /\ Credentials' = Credentials
             /\ TokenStores' = TokenStores ]_vars

\* the step taken is a signup for the normalized email a with password p
\* answering success: in the backend the resumed request
SignupSucceeds(a, p) ==
    /\ Answers("signup")
    /\ resp'.success
    /\ \/ \E r \in BagToSet(req) :
              r.email = a /\ r.password = p /\ BSignupResume(r)
       \/ \E i \in CSignupInputs :
              NormalizeEmail(i[1]) = a /\ i[2] = p /\ CSignup(i[1], i[2])

\* the account a signup has just created: the record pushed last in the
\* backend, the record under the key in the client
CreatedAccount(a) ==
    IF impl = "backend" THEN UserData(users[Len(users)])
    ELSE lsRegisteredUsers[a].user

\* p is the password of the signed-up account that the pending verification
\* of a was minted for
PendingAccountPassword(a, p) ==
    /\ VerificationEntry(a) # << >>
    /\ IF impl = "backend"
       THEN \E k \in DOMAIN users :
               /\ k > Len(BackendDemoUsers)
               /\ users[k].email = a
               /\ users[k].id = VerificationEntry(a)[1].userId
               /\ bcryptCompare(p, users[k].password)
       ELSE /\ MapHas(lsRegisteredUsers, a)
            /\ lsRegisteredUsers[a].hashedPassword = hashPassword(p)

\* login(email, password) succeeds and returns an operator, with the role
\* operator in the session token
LoginAsOperator(email, password) ==
    /\ LoginAnswer(email, password).success
    /\ IF impl = "backend"
       THEN /\ LoginAnswer(email, password).user[1].role = "operator"
            /\ LoginAnswer(email, password).token[1].role = "operator"
       ELSE LookupUser(lsRegisteredUsers, NormalizeEmail(email))[1].user.role = "operator"

\* C18: scenario signup, verify, login.  When a signup succeeds, the account
\* it created is unverified with role operator and the answer carries
\* requiresVerification; right after it, login with the signup's password is
\* refused as not verified and verifyEmail with the token the signup minted
\* succeeds.  When verifyEmail succeeds for a signed-up account, the login
\* that follows with the account's password succeeds as operator.
C18_SignupVerifyLogin ==
    [][ /\ \A a \in NormalizedEmails : \A p \in ValidPasswords :
              SignupSucceeds(a, p)
                 => /\ resp'.requiresVerification
                    /\ CreatedAccount(a)'.email = a
                    /\ ~CreatedAccount(a)'.isVerified
                    /\ CreatedAccount(a)'.role = "operator"
                    /\ NotVerified(LoginAnswer(a, p))'
                    /\ VerifyAnswer(a, Minted)'.success
        /\ \A e \in Emails : \A t \in Tokens : \A p \in ValidPasswords :
              (VerifySucceeds(e, t) /\ PendingAccountPassword(NormalizeEmail(e), p))
                 => LoginAsOperator(e, p)' ]_vars

\* the passwords a login request can carry: none, a wrong one, the right one
LoginPasswords == ValidPasswords \cup { NoString, ShortPassword }

\* the records of users whose email is the normalized email a
RecordsOf(a) == { i \in DOMAIN users : users[i].email = a }

\* the record users.find returns for a: the first of them
FirstRecordOf(a) == CHOOSE i \in RecordsOf(a) : \A j \in RecordsOf(a) : i <= j

\* C19: the backend login evaluates its failure cases in a fixed order: a
\* missing email or password gives 400; otherwise no account for the
\* normalized email gives 401; otherwise an unverified account gives 403,
\* whatever the password; otherwise a wrong password gives 401; only when the
\* four checks pass the answer is 200 with a token, and a token comes with
\* no other answer.
C19_LoginCheckOrder ==
    impl = "backend" =>
      \A e \in Emails : \A p \in LoginPasswords :
        LET answer == LoginResponse(users, now, e, p)
            a == NormalizeEmail(e)
        IN /\ (Missing(e) \/ Missing(p)) => answer.status = 400
           /\ (~Missing(e) /\ ~Missing(p) /\ RecordsOf(a) = {})
                 => answer.status = 401
           /\ (~Missing(e) /\ ~Missing(p) /\ RecordsOf(a) # {})
                 => IF ~users[FirstRecordOf(a)].isVerified
                    THEN answer.status = 403
                    ELSE IF ~bcryptCompare(p, users[FirstRecordOf(a)].password)
                    THEN answer.status = 401
                    ELSE answer.status = 200
           /\ answer.status = 200 <=> answer.token # << >>
           /\ answer.status = 200 <=> answer.success

\* login has answered 403 while the account holds a password that the
\* requests do not all carry: the verification check came first
C19_UnverifiedRefused ==
    /\ impl = "backend"
    /\ resp.op = "login"
    /\ resp.status = 403
    /\ \E i \in DOMAIN users :
          /\ ~users[i].isVerified
          /\ \E p \in ValidPasswords : ~bcryptCompare(p, users[i].password)

\* the payload of the session token a successful login has just issued, and
\* the user record it returned (backend) or persisted (client)
IssuedPayload == IF impl = "backend" THEN resp.token[1] ELSE lsSession.token[1][2]
IssuedUser == IF impl = "backend" THEN resp.user[1] ELSE lsSession.user[1]

\* the expiry a token issued with the given issued-at has to carry: 24 hours
\* later, in the seconds of the JWT or the milliseconds of the client
TwentyFourHoursAfter(iat) ==
    IF impl = "backend" THEN iat + JWT_EXPIRES_IN_S ELSE iat + SESSION_TTL

\* C20: when login has answered success, the session token it issued embeds
\* the account id, the account email, the account's role, an issued-at time
\* and an expiry exactly 24 hours later, and the user record returned or
\* persisted holds no password hash (backend JWT, client generateToken and
\* localStorage session).
C20_SessionTokenContents ==
    (resp.op = "login" /\ resp.success) =>
        /\ { "userId", "email", "role", "iat", "exp" } \subseteq DOMAIN IssuedPayload
        /\ IssuedPayload.userId = IssuedUser.id
        /\ IssuedPayload.email = IssuedUser.email
        /\ IssuedPayload.role = IssuedUser.role
        /\ IssuedPayload.exp = TwentyFourHoursAfter(IssuedPayload.iat)
        /\ DOMAIN IssuedUser \cap { "password", "hashedPassword" } = {}

----------------------------------------------------------------------------
(* C21 .. C30 *)

\* C21: permission superset: in ROLE_PERMISSIONS every permission of the
\* operator is a permission of the manager and of the director, and every
\* permission of the manager is a permission of the director; the same is
\* what hasPermission answers for the user logged in.
C21_PermissionSuperset ==
    /\ ROLE_PERMISSIONS["operator"] \subseteq ROLE_PERMISSIONS["manager"]
    /\ ROLE_PERMISSIONS["operator"] \subseteq ROLE_PERMISSIONS["director"]
    /\ ROLE_PERMISSIONS["manager"] \subseteq ROLE_PERMISSIONS["director"]
    /\ (user # << >> /\ user[1].role \in { "manager", "director" })
          => \A q \in ROLE_PERMISSIONS["operator"] : hasPermission(q)
    /\ (user # << >> /\ user[1].role = "director")
          => \A q \in ROLE_PERMISSIONS["manager"] : hasPermission(q)

\* a manager is logged in and holds every permission of the operator, and
\* permissions the operator lacks
C21_ManagerLoggedIn ==
    /\ impl = "client"
    /\ isAuthenticated
    /\ user[1].role = "manager"
    /\ \A q \in ROLE_PERMISSIONS["operator"] : hasPermission(q)
    /\ \E q \in Permissions \ ROLE_PERMISSIONS["operator"] : hasPermission(q)

\* the lists of roles that the callers of canAccess pass (UserRole[])
RoleLists == SUBSET UserRoles

DemoEmails == { OperatorEmail, ManagerEmail, DirectorEmail }
DemoRole(d) ==
    IF d = OperatorEmail THEN "operator"
    ELSE IF d = ManagerEmail THEN "manager" ELSE "director"

\* the role of the user a successful login(email, ...) returns
LoginRole(email) ==
    IF impl = "backend"
    THEN users[FindUser(users, NormalizeEmail(email))].role
    ELSE LookupUser(lsRegisteredUsers, NormalizeEmail(email))[1].user.role

\* no operation has run yet
InitialState ==
    /\ now = 0 /\ tokCtr = 0 /\ idCtr = 0
    /\ users = BackendDemoUsers
    /\ lsRegisteredUsers = EmptyMap

\* the permissions the claim gives to the director alone
DirectorOnly ==
    { "export_reports", "delete_tasks", "manage_settings", "view_all_data",
      "manage_organization" }

\* C23: demo accounts: in the initial state login with each demo address and
\* demo123 succeeds with the matching role, and a client login of a demo
\* account leaves that role in the session; the permission check gives
\* manage_team to manager and director and not to operator, and gives
\* export_reports, delete_tasks, manage_settings, view_all_data and
\* manage_organization to the director only.
C23_DemoAccounts ==
    /\ InitialState
          => \A d \in DemoEmails :
                /\ LoginAnswer(d, DemoPassword).success
                /\ LoginRole(d) = DemoRole(d)
    /\ (impl = "client" /\ resp.op = "login" /\ resp.success
            /\ user[1].email \in DemoEmails)
          => user[1].role = DemoRole(user[1].email)
    /\ (user # << >> /\ user[1].role \in UserRoles)
          => /\ hasPermission("manage_team") <=> user[1].role \in { "manager", "director" }
             /\ \A q \in DirectorOnly : hasPermission(q) <=> user[1].role = "director"
    /\ \A role \in UserRoles :
          /\ "manage_team" \in ROLE_PERMISSIONS[role] <=> role # "operator"
          /\ \A q \in DirectorOnly : q \in ROLE_PERMISSIONS[role] <=> role = "director"

\* the demo manager has just logged in at the start and may manage the team
\* but not export reports
C23_DemoManagerLoggedIn ==
    /\ impl = "client"
    /\ resp.op = "login"
    /\ resp.success
    /\ InitialState
    /\ user[1].email = ManagerEmail
    /\ user[1].role = "manager"
    /\ hasPermission("manage_team")
    /\ ~hasPermission("export_reports")

\* what a step of resendVerification(e) has to do once the email is given:
\* 404 or 400 with the token store untouched, else a fresh token under the
\* normalized email, expiring 24 hours from now, in place of any prior entry
ResendOutcome(e) ==
    LET a == NormalizeEmail(e) IN
    IF RecordsOf(a) = {}
    THEN /\ resp'.status = 404
         /\ ~resp'.success
         /\ pendingVerifications' = pendingVerifications
    ELSE IF users[FirstRecordOf(a)].isVerified
    THEN /\ resp'.status = 400
         /\ ~resp'.success
         /\ pendingVerifications' = pendingVerifications
    ELSE /\ tokCtr' = tokCtr + 1
         /\ MapHas(pendingVerifications', a)
         /\ pendingVerifications'[a].token = Minted'
         /\ pendingVerifications'[a].expiry = now + 24 * 60 * 60 * 1000
         /\ \A k \in DOMAIN pendingVerifications' \ { a } :
               /\ MapHas(pendingVerifications, k)
               /\ pendingVerifications'[k] = pendingVerifications[k]

\* C24 as stated: resendVerification answers 404 when no account exists for
\* the normalized email and 400 when the account is verified, leaving the
\* token store unchanged, and otherwise mints a fresh token with a new
\* 24-hour expiry over any prior verification entry of that email.
C24_ResendVerification ==
    [][ \A e \in Emails :
          (Answers("resendVerification") /\ BResendVerification(e))
             => ResendOutcome(e) ]_vars

\* C24 amended: the same for every request that carries an email; a request
\* without one is answered 400 and leaves the token store unchanged.
C24_ResendVerificationWithEmail ==
    [][ \A e \in Emails :
          (Answers("resendVerification") /\ BResendVerification(e))
             => IF Missing(e)
                THEN /\ resp'.status = 400
                     /\ pendingVerifications' = pendingVerifications
                ELSE ResendOutcome(e) ]_vars

\* resendVerification has replaced the entry of a signed-up account, a day
\* after the signup, by a token that expires 24 hours from now
C24_ResentAfterExpiry ==
    /\ impl = "backend"
    /\ resp.op = "resendVerification"
    /\ resp.success
    /\ now >= VERIFY_TTL
    /\ \E a \in NormalizedEmails :
          /\ VerificationEntry(a) # << >>
          /\ VerificationEntry(a)[1].token = Minted
          /\ VerificationEntry(a)[1].expiry = now + 24 * 60 * 60 * 1000

\* the routes wrapped in ProtectedRoute, and those of them with allowedRoles
ProtectedPaths ==
    { "/dashboard", "/tasks", "/performance", "/settings", "/profile",
      "/team", "/assessment", "/reports" }
RestrictedPaths == { "/team", "/assessment", "/reports" }

\* C25: route guarding: once loading has finished, a protected route renders
\* its page only for an authenticated user and sends everyone else to
\* /login; /team, /assessment and /reports render only for manager and
\* director and send an authenticated operator to /dashboard; /dashboard
\* renders for every authenticated user, and from every path the router
\* settles on a rendered page within MaxHops redirects.
C25_RouteGuarding ==
    (impl = "client" /\ ~loading) =>
        /\ \A path \in ProtectedPaths :
              /\ RouteElement(path).kind = "render" => isAuthenticated
              /\ ~isAuthenticated => RouteElement(path) = Navigate("/login")
        /\ \A path \in RestrictedPaths :
              /\ RouteElement(path).kind = "render"
                    => user[1].role \in { "manager", "director" }
              /\ (isAuthenticated /\ user[1].role = "operator")
                    => RouteElement(path) = Navigate("/dashboard")
        /\ isAuthenticated => RouteElement("/dashboard") = Render("Dashboard")
        /\ \A path \in Paths : Settle(path, MaxHops).kind = "render"

\* an operator who signed up is logged in, and /team sends the operator to
\* the dashboard, which renders
C25_OperatorSentToDashboard ==
    /\ impl = "client"
    /\ ~loading
    /\ isAuthenticated
    /\ user[1].role = "operator"
    /\ MapHas(lsRegisteredUsers, user[1].email)
    /\ RouteElement("/team") = Navigate("/dashboard")
    /\ Settle("/team", MaxHops) = Render("Dashboard")

\* C26: logout is a client-side discard: when the client's logout returns,
\* user and token are null and the three storage keys are gone, so
\* isAuthenticated is false and initializeAuth has nothing to restore, and an
\* initializeAuth that finds the keys gone sets no session; the backend's
\* logout answers success and changes neither users nor the token store.
C26_LogoutDiscardsSession ==
    [][ /\ (Answers("logout") /\ impl = "client")
              => /\ user' = << >>
                 /\ token' = << >>
                 /\ lsSession' = NoSession
                 /\ ~isAuthenticated'
                 /\ RestoredUser(lsSession') = << >>
                 /\ RestoredToken(lsSession') = << >>
        /\ (lsSession = NoSession /\ CInitializeAuth) => ~isAuthenticated'
        /\ (Answers("logout") /\ impl = "backend")
              => /\ resp'.success
                 /\ resp'.status = 200
                 /\ users' = users
                 /\ pendingVerifications' = pendingVerifications ]_vars

\* the client's logout has returned at a time when an account that signed up
\* is verified, and no session is left in the component or in storage
C26_LoggedOut ==
    /\ impl = "client"
    /\ resp.op = "logout"
    /\ ~isAuthenticated
    /\ lsSession = NoSession
    /\ \E a \in DOMAIN lsRegisteredUsers : lsRegisteredUsers[a].user.isVerified

\* C27: in the client the in-memory user is non-null exactly when the
\* in-memory token is non-null, initially and after every step
\* (initializeAuth, login attempts, logout), and a login that fails leaves
\* user, token and the three session keys as they were before the attempt.
UserIffToken == impl = "client" => ((user # << >>) <=> (token # << >>))

C27_SessionStateConsistent ==
    /\ UserIffToken
    /\ [][ /\ UserIffToken'
           /\ (Answers("login") /\ impl = "client" /\ ~resp'.success)
                 => UNCHANGED << user, token, lsSession >> ]_vars

\* a login has failed while a session was held
C27_FailedLoginWithSession ==
    /\ impl = "client"
    /\ resp.op = "login"
    /\ ~resp.success
    /\ user # << >>
    /\ lsSession # NoSession

\* pendingVerifications after resendVerification(email) at time t, tok being
\* the token it draws: unchanged on its three refusals
AfterResend(us, pv, t, email, tok) ==
    LET normalizedEmail == NormalizeEmail(email)
        i == FindUser(us, normalizedEmail)
    IN IF Missing(email) \/ i = 0 THEN pv
       ELSE IF us[i].isVerified THEN pv
       ELSE MapSet(pv, normalizedEmail,
                   [ token |-> tok, expiry |-> t + VERIFY_TTL, userId |-> us[i].id ])

\* verifyEmail(email, token of the pending entry) would now succeed and mark
\* record k of the backend: users.find returns the first record of the email
BackendVerifies(us, pv, t, k, email) ==
    LET normalizedEmail == NormalizeEmail(email) IN
    /\ normalizedEmail = us[k].email
    /\ FindUser(us, normalizedEmail) = k
    /\ MapHas(pv, normalizedEmail)
    /\ VerifyEmailResponse(pv, t, email, pv[normalizedEmail].token).success

\* verifyEmail(email, token of the pending entry) would now succeed and mark
\* the client's account a
ClientVerifies(registeredUsers, pending, t, a, email) ==
    LET normalizedEmail == NormalizeEmail(email) IN
    /\ normalizedEmail = a
    /\ MapHas(registeredUsers, a)
    /\ MapHas(pending, a)
    /\ CVerifyEmailResult(pending, t, email, pending[a].token).success

\* the account k (a record of users, a key of the registered users) can be
\* verified from the current state: by verifyEmail with the pending token, or
\* in the backend by resendVerification followed by verifyEmail
CanBecomeVerified(k) ==
    \E email \in EmailStrings :
        IF impl = "backend"
        THEN \/ BackendVerifies(users, pendingVerifications, now, k, email)
             \/ BackendVerifies(users,
                                AfterResend(users, pendingVerifications, now, email,
                                            RandomToken(tokCtr + 1)),
                                now, k, email)
        ELSE ClientVerifies(lsRegisteredUsers, lsPendingVerifications, now, k, email)

\* the account is unverified and cannot be verified from the current state
Stranded(k) ==
    /\ k \in DOMAIN VerificationFlags
    /\ ~VerificationFlags[k]
    /\ ~CanBecomeVerified(k)

\* C28: an account in pending verification can always still become verified:
\* in every reachable state every unverified account, of the backend and of
\* the client, also one whose token has expired or was deleted on an expired
\* attempt, has a sequence of operations that verifies it.
C28_UnverifiedCanBecomeVerified ==
    \A k \in DOMAIN VerificationFlags :
        ~VerificationFlags[k] => CanBecomeVerified(k)

\* no operation helps an account that cannot be verified by verifyEmail or by
\* resendVerification and verifyEmail: it stays unverified whatever is called
C28_StrandedStaysStranded ==
    [][ \A k \in DOMAIN VerificationFlags : Stranded(k) => Stranded(k)' ]_vars

\* the statement for the accounts users.find returns in the backend
C28_BackendFirstRecords ==
    impl = "backend" =>
        \A k \in DOMAIN users :
            (~users[k].isVerified /\ FindUser(users, users[k].email) = k)
                => CanBecomeVerified(k)

\* C29: in the client the loading flag is true exactly while a signup,
\* verifyEmail, login, requestPasswordReset or resetPassword call is in
\* flight: true from the call until its return, false once none is in flight,
\* and with two overlapping calls not false before the later one has returned.
C29_LoadingWhileInFlight ==
    impl = "client" => (loading <=> BagIn(CallKind("login"), calls))

----------------------------------------------------------------------------
(* Sidebar: src/unnamed/part_006 *)

\* a navigation table that offers Team to every role
NAV_ITEMS_TeamForAll ==
    << [ label |-> "Dashboard", path |-> "/dashboard",
         roles |-> { "operator", "manager", "director" } ],
       [ label |-> "Tasks", path |-> "/tasks",
         roles |-> { "operator", "manager", "director" } ],
       [ label |-> "Team", path |-> "/team",
         roles |-> { "operator", "manager", "director" } ],
       [ label |-> "Performance", path |-> "/performance",
         roles |-> { "operator", "manager", "director" } ],
       [ label |-> "Assessment", path |-> "/assessment",
         roles |-> { "manager", "director" } ],
       [ label |-> "Reports", path |-> "/reports",
         roles |-> { "manager", "director" } ],
       [ label |-> "Settings", path |-> "/settings",
         roles |-> { "operator", "manager", "director" } ] >>

\* NAV_ITEMS: the items of the Sidebar with the roles each is shown to
NAV_ITEMS ==
    << [ label |-> "Dashboard", path |-> "/dashboard",
         roles |-> { "operator", "manager", "director" } ],
       [ label |-> "Tasks", path |-> "/tasks",
         roles |-> { "operator", "manager", "director" } ],
       [ label |-> "Team", path |-> "/team",
         roles |-> { "manager", "director" } ],
       [ label |-> "Performance", path |-> "/performance",
         roles |-> { "operator", "manager", "director" } ],
       [ label |-> "Assessment", path |-> "/assessment",
         roles |-> { "manager", "director" } ],
       [ label |-> "Reports", path |-> "/reports",
         roles |-> { "manager", "director" } ],
       [ label |-> "Settings", path |-> "/settings",
         roles |-> { "operator", "manager", "director" } ] >>

\* const filteredNavItems = NAV_ITEMS.filter((item) => canAccess(item.roles))
IsShown(item) == canAccess(item.roles)
filteredNavItems == SelectSeq(NAV_ITEMS, IsShown)

\* the paths the Sidebar links to in the current state
SidebarPaths == { filteredNavItems[i].path : i \in DOMAIN filteredNavItems }

\* C30: navigation and route guards agree for every role: every item the
\* Sidebar shows to the logged-in user leads to a path whose route renders its
\* page for that user, and a role-restricted route (/team, /assessment,
\* /reports) whose guard turns the user away is not among the Sidebar's items.
C30_SidebarMatchesGuards ==
    (impl = "client" /\ ~loading /\ isAuthenticated) =>
        /\ \A path \in SidebarPaths : RouteElement(path).kind = "render"
        /\ \A path \in RestrictedPaths :
              RouteElement(path).kind # "render" => path \notin SidebarPaths

\* an operator who signed up is logged in: the Sidebar shows Dashboard, Tasks,
\* Performance and Settings, and the guard of /team turns the operator away
C30_OperatorSidebar ==
    /\ impl = "client"
    /\ ~loading
    /\ isAuthenticated
    /\ user[1].role = "operator"
    /\ SidebarPaths = { "/dashboard", "/tasks", "/performance", "/settings" }
    /\ RouteElement("/team").kind = "navigate"

====
